---- MODULE Spec2Model ----
(***************************************************************************)
(* Synthetic data generator (src/app.py): a sampler of plausible financial *)
(* figures, a timing gate, and a single-row "latest value" worksheet that  *)
(* is overwritten on every generation and read back for display.           *)
(*                                                                         *)
(* Units.  Wall-clock time is counted in whole seconds.  Money before      *)
(* rounding is counted in mills (1/1000 of a pound), money after           *)
(* round(x, 2) in pence (1/100).  Proportions are counted in percent.      *)
(* Text is a sequence of characters, each a one-character string; the      *)
(* fixed header names are kept as one unit each.                           *)
(***************************************************************************)
EXTENDS Integers, Sequences, FiniteSets, TLC

VARIABLES
    wsExists,          \* the worksheet named by gsheet_worksheet exists
    cells,             \* the worksheet's grid: row -> column -> cell
    padValues,         \* whether get_values pads ragged rows to equal width
    last_generate_ts,  \* st.session_state.last_generate_ts
    clock,             \* time.time()
    sessionStart,      \* time.time() when the session began
    pc,                \* position of the script run (one run = one tick)
    clicked,           \* the "Generate now" button was pressed for the next run
    manual,            \* line 86: the button's value in this run
    now,               \* line 89
    gateDue,           \* value of due(now) at line 91 in this run
    rec,               \* line 92: the generated snapshot
    latest,            \* line 96: result of read_latest()
    rendered,          \* lines 98-112: what the page shows
    remaining,         \* line 115
    tsBefore,          \* last_generate_ts when the run started
    cellsBefore,       \* the grid when the run started (adapter: after the last write)
    gens,              \* the last two generating runs: now, manual, stamped
    firstRun,          \* no run of the session has ended yet
    writes,            \* how each write_single_row call of the run ended
    reads,             \* results of read_latest() since the last write
    draw               \* the random draws behind rec

vars == << wsExists, cells, padValues, last_generate_ts, clock, sessionStart,
           pc, clicked,
           manual, now, gateDue, rec, latest, rendered, remaining, tsBefore,
           cellsBefore, gens, firstRun, writes, reads, draw >>

----------------------------------------------------------------------------
(* Program constants *)

INTERVAL_SECONDS == 30

CA_MIN == 50000
CA_MAX == 250000

INV_PROP_LOW == 10
INV_PROP_HIGH == 60
CL_PROP_LOW == 30
CL_PROP_HIGH == 110

WS_ROWS == 10
WS_COLS == 6

HEADER_ROW == 1
DATA_ROW == 2
RANGE_COLS == 4

(* Bounds of the model *)

MaxSession == 40
MaxReads == 2

\* one pound, in mills and in pence
Mills == 10 * 100
Pence == Mills \div 10

----------------------------------------------------------------------------
(* Text and number formatting *)

DigitChars == << "0", "1", "2", "3", "4", "5", "6", "7", "8", "9" >>

RECURSIVE Digits(_)
Digits(n) ==
    IF n < 10 THEN << DigitChars[n + 1] >>
    ELSE Digits(n \div 10) \o << DigitChars[(n % 10) + 1] >>

DigitValue(c) ==
    IF \E d \in 1..10 : DigitChars[d] = c
    THEN (CHOOSE d \in 1..10 : DigitChars[d] = c) - 1
    ELSE -1

\* datetime.now(timezone.utc).isoformat(timespec="seconds"): the text is
\* fixed by the second count and always carries the UTC offset.
isoformat(t) == Digits(t) \o << "+", "0", "0", ":", "0", "0" >>

\* How the worksheet shows a number (pence) when its values are read as
\* text: integer part, then at most two decimals with no trailing zero.
FormatNumber(p) ==
    LET whole == Digits(p \div 100)
        f     == p % 100
    IN  IF f = 0 THEN whole
        ELSE IF f % 10 = 0 THEN whole \o << "." >> \o Digits(f \div 10)
        ELSE whole \o << "." >> \o << DigitChars[(f \div 10) + 1] >>
                   \o << DigitChars[(f % 10) + 1] >>

ParseError == -1

RECURSIVE ParseNat(_)
ParseNat(s) ==
    IF Len(s) = 0 THEN 0
    ELSE ParseNat(SubSeq(s, 1, Len(s) - 1)) * 10 + DigitValue(s[Len(s)])

AllDigits(s) == \A i \in 1..Len(s) : DigitValue(s[i]) >= 0

\* float(text) at lines 101-103, in pence; ParseError stands for ValueError.
float(s) ==
    LET dots == { i \in 1..Len(s) : s[i] = "." }
    IN  IF Len(s) = 0 \/ Cardinality(dots) > 1 THEN ParseError
        ELSE IF dots = {} THEN
            IF AllDigits(s) THEN ParseNat(s) * 100 ELSE ParseError
        ELSE
            LET d     == CHOOSE i \in dots : TRUE
                whole == SubSeq(s, 1, d - 1)
                frac  == SubSeq(s, d + 1, Len(s))
            IN  IF ~AllDigits(whole) \/ ~AllDigits(frac)
                   \/ Len(whole) + Len(frac) = 0 \/ Len(frac) > 2
                THEN ParseError
                ELSE ParseNat(whole) * 100
                     + (IF Len(frac) = 1 THEN ParseNat(frac) * 10
                        ELSE ParseNat(frac))

----------------------------------------------------------------------------
(* Data synth: generate_plausible_values *)

NoRec == [ timestamp_utc |-> << >>, current_assets |-> 0,
           current_liabilities |-> 0, inventory |-> 0 ]

NoDraw == [ raw |-> 0, inv_prop |-> 0, cl_prop |-> 0 ]

Min(a, b) == IF a <= b THEN a ELSE b
Max(a, b) == IF a >= b THEN a ELSE b

\* np.clip(x, 50_000, 250_000) with no upper limit applied
clip_lower_only(x, lo, hi) == IF x < lo THEN lo ELSE x

\* np.clip(x, lo, hi)
clip(x, lo, hi) == IF x < lo THEN lo ELSE IF x > hi THEN hi ELSE x

\* proportion (percent) times an amount (mills)
Scale(prop, amount) ==
    (amount \div 100) * prop + ((amount % 100) * prop) \div 100

\* round(x, 2): mills to pence, ties to the even neighbour
round2(m) ==
    LET q == m \div 10
        r == m % 10
    IN  IF r < 5 THEN q
        ELSE IF r > 5 THEN q + 1
        ELSE IF q % 2 = 0 THEN q ELSE q + 1

generate_plausible_values(raw, inv_prop, cl_prop, utcnow) ==
    LET ca   == clip(raw, CA_MIN * Mills, CA_MAX * Mills)
        inv0 == Scale(inv_prop, ca)
        cl0  == Scale(cl_prop, ca)
        inv  == Min(inv0, ca)
        cl   == Max(cl0, 1 * Mills)
    IN  [ timestamp_utc       |-> isoformat(utcnow),
          current_assets      |-> round2(ca),
          current_liabilities |-> round2(cl),
          inventory           |-> round2(inv) ]

\* Draws of rng.lognormal(mean=11.0, sigma=0.35): any positive amount.
LognormalDraws ==
    { 1, 20000 * Mills, 49999999, 50000 * Mills, 59874142, 123456785,
      249999995, 250000 * Mills, 250000001, 900000 * Mills }

\* Draws of rng.uniform(0.10, 0.60) and rng.uniform(0.30, 1.10).
InvPropDraws == { INV_PROP_LOW, 33, 59, INV_PROP_HIGH }
ClPropDraws == { CL_PROP_LOW, 77, 100, CL_PROP_HIGH }

----------------------------------------------------------------------------
(* Google Sheets helpers: the worksheet, open_ws, write_single_row,        *)
(* read_latest                                                             *)

Blank == [ kind |-> "blank", text |-> << >>, num |-> 0 ]
TextCell(s) == [ kind |-> "text", text |-> s, num |-> 0 ]
NumberCell(p) == [ kind |-> "number", text |-> << >>, num |-> p ]

HEADER == << << "timestamp_utc" >>, << "current_assets" >>,
             << "current_liabilities" >>, << "inventory" >> >>

HeaderCells == [ c \in 1..Len(HEADER) |-> TextCell(HEADER[c]) ]

BlankGrid == [ r \in 1..WS_ROWS |-> [ c \in 1..WS_COLS |-> Blank ] ]

\* ws.update of one row starting at column A: the cells given are replaced,
\* the rest of the grid is left alone.
update(grid, row, values) ==
    [ grid EXCEPT ![row] =
        [ c \in 1..WS_COLS |-> IF c <= Len(values) THEN values[c] ELSE @[c] ] ]

\* open_ws without the lookup: a worksheet is added on every call
open_ws_always_adds(exists, grid) ==
    [ exists |-> TRUE, cells |-> update(BlankGrid, HEADER_ROW, HeaderCells) ]

\* open_ws: the worksheet, created with the header when it is not found
open_ws(exists, grid) ==
    IF exists THEN [ exists |-> TRUE, cells |-> grid ]
    ELSE [ exists |-> TRUE,
           cells  |-> update(BlankGrid, HEADER_ROW, HeaderCells) ]

\* liabilities and inventory written in each other's column
RecordCells_swapped(record) ==
    << TextCell(record.timestamp_utc), NumberCell(record.current_assets),
       NumberCell(record.inventory), NumberCell(record.current_liabilities) >>

\* lines 42-47: the row written, in column order
RecordCells(record) ==
    << TextCell(record.timestamp_utc), NumberCell(record.current_assets),
       NumberCell(record.current_liabilities), NumberCell(record.inventory) >>

FirstBlankRow(grid) ==
    LET blank == { r \in (DATA_ROW)..WS_ROWS :
                     \A c \in 1..WS_COLS : grid[r][c] = Blank }
    IN  IF blank = {} THEN WS_ROWS
        ELSE CHOOSE r \in blank : \A q \in blank : r <= q

\* the record is appended under the rows in use instead of replacing row 2
row_values_appended(grid, record) ==
    update(grid, FirstBlankRow(grid), RecordCells(record))

\* lines 42-47: overwrite row 2 with the latest values
row_values_written(grid, record) ==
    update(grid, DATA_ROW, RecordCells(record))

FailPoints == { "none", "open", "header", "row" }

\* write_single_row(record), stopped by an exception of the sheets client
\* at failAt: "open" (lines 37-38, before anything is touched), "header"
\* (line 40), "row" (line 42), or not at all ("none").
write_single_row(exists, grid, record, failAt) ==
    LET ws == open_ws(exists, grid)
    IN  IF failAt = "open" THEN [ exists |-> exists, cells |-> grid ]
        ELSE IF failAt = "header" THEN ws
        ELSE LET headed == update(ws.cells, HEADER_ROW, HeaderCells)
             IN  IF failAt = "row" THEN [ exists |-> TRUE, cells |-> headed ]
                 ELSE [ exists |-> TRUE,
                        cells  |-> row_values_written(headed, record) ]

\* The text a cell is read as.
Display(cell) ==
    IF cell.kind = "number" THEN FormatNumber(cell.num) ELSE cell.text

\* One row of the range, trailing empty cells dropped.
RowValues(grid, r) ==
    LET used == { c \in 1..RANGE_COLS : Display(grid[r][c]) # << >> }
        last == IF used = {} THEN 0
                ELSE CHOOSE c \in used : \A d \in used : d <= c
    IN  [ c \in 1..last |-> Display(grid[r][c]) ]

\* ws.get_values("A1:D2"): the rows of the range as lists of text, trailing
\* empty rows dropped; with pad, short rows are filled with empty text up to
\* the longest row.
get_values(grid, pad) ==
    LET r1  == RowValues(grid, HEADER_ROW)
        r2  == RowValues(grid, DATA_ROW)
        raw == IF Len(r2) > 0 THEN << r1, r2 >>
               ELSE IF Len(r1) > 0 THEN << r1 >>
               ELSE << >>
        w   == Max(Len(r1), Len(r2))
        Fill(row) == [ c \in 1..w |-> IF c <= Len(row) THEN row[c] ELSE << >> ]
    IN  IF pad THEN [ i \in 1..Len(raw) |-> Fill(raw[i]) ] ELSE raw

None == [ kind |-> "none", columns |-> << >>, row |-> << >> ]
Raised == [ kind |-> "error", columns |-> << >>, row |-> << >> ]

\* read_latest() on the worksheet open_ws returned: None, a one-row frame
\* (column labels and the row), or the ValueError of pd.DataFrame when the
\* labels and the row differ in length.
read_latest(grid, pad) ==
    LET data == get_values(grid, pad)
    IN  IF Len(data) < 2 \/ Len(data[2]) < RANGE_COLS THEN None
        ELSE IF Len(data[1]) # Len(data[2]) THEN Raised
        ELSE [ kind |-> "frame", columns |-> data[1], row |-> data[2] ]

\* row["label"] of the frame's only row; << >> when the label is missing
Field(frame, label) ==
    LET at == { c \in 1..Len(frame.columns) : frame.columns[c] = label }
    IN  IF at = {} THEN << >> ELSE frame.row[CHOOSE c \in at : TRUE]

HasLabel(frame, label) ==
    \E c \in 1..Len(frame.columns) : frame.columns[c] = label

----------------------------------------------------------------------------
(* Rendering, lines 98-117 *)

Pad2(k) == << DigitChars[(k \div 10) + 1], DigitChars[(k % 10) + 1] >>
Pad3(k) == << DigitChars[(k \div 100) + 1] >> \o Pad2(k % 100)

RECURSIVE Grouped(_)
Grouped(n) ==
    IF n < 1000 THEN Digits(n)
    ELSE Grouped(n \div 1000) \o << "," >> \o Pad3(n % 1000)

\* f"{x:,.2f}" of an amount in pence
FormatMetric(p) == Grouped(p \div 100) \o << "." >> \o Pad2(p % 100)

NothingShown == [ kind |-> "none", m1 |-> << >>, m2 |-> << >>, m3 |-> << >>,
                  caption |-> << >> ]
InfoShown == [ kind |-> "info", m1 |-> << >>, m2 |-> << >>, m3 |-> << >>,
               caption |-> << >> ]

\* lines 101-103 succeed: the three labels exist and their text parses
Renderable(frame) ==
    \A label \in { HEADER[2], HEADER[3], HEADER[4] } :
        /\ HasLabel(frame, label)
        /\ float(Field(frame, label)) # ParseError

\* lines 99-112
render(frame) ==
    IF frame.kind = "frame"
    THEN [ kind    |-> "metrics",
           m1      |-> FormatMetric(float(Field(frame, HEADER[2]))),
           m2      |-> FormatMetric(float(Field(frame, HEADER[3]))),
           m3      |-> FormatMetric(float(Field(frame, HEADER[4]))),
           caption |-> Field(frame, HEADER[1]) ]
    ELSE InfoShown

\* lines 114-115
countdown(t, last) ==
    Max(0, INTERVAL_SECONDS - (t - last))

----------------------------------------------------------------------------
(* Timing *)

\* the gate with a strict comparison
due_strict(t) == (t - last_generate_ts) > INTERVAL_SECONDS

\* due(now), lines 81-82
due(t) == (t - last_generate_ts) >= INTERVAL_SECONDS

----------------------------------------------------------------------------
(* Inputs of the model *)

\* time.time() when a session starts
StartTimes == { INTERVAL_SECONDS, 100 }

\* seconds that pass between two runs: 0 only when the button cuts the
\* sleep short
Elapse == { 0, 10, INTERVAL_SECONDS }

\* seconds the calls of one write_single_row take
WriteLatency == { 0, 10 }

\* the draws used by the runs of a session
RunDraws ==
    { [ raw |-> 59874142, inv_prop |-> 33, cl_prop |-> 77 ],
      [ raw |-> 900000 * Mills, inv_prop |-> INV_PROP_LOW,
        cl_prop |-> CL_PROP_HIGH ] }

Generated(d, t) ==
    generate_plausible_values(d.raw, d.inv_prop, d.cl_prop, t)

\* a record left by an earlier session
EarlierRecord == Generated([ raw |-> 123456785, inv_prop |-> 59,
                             cl_prop |-> 100 ], 7)

HeaderOnly == update(BlankGrid, HEADER_ROW, HeaderCells)

AbsentStore == [ exists |-> FALSE, cells |-> BlankGrid ]

\* worksheets as a session can find them: absent, or left by an earlier
\* session
SessionStores ==
    { AbsentStore,
      [ exists |-> TRUE,
        cells  |-> update(HeaderOnly, DATA_ROW, RecordCells(EarlierRecord)) ] }

\* worksheets as the adapter can find them, hand-edited ones included
AdapterStores ==
    SessionStores \cup
    { [ exists |-> TRUE, cells |-> BlankGrid ],
      [ exists |-> TRUE, cells |-> HeaderOnly ],
      [ exists |-> TRUE,
        cells  |-> update(HeaderOnly, DATA_ROW,
                     << TextCell(isoformat(7)), NumberCell(6000000) >>) ],
      [ exists |-> TRUE,
        cells  |-> update(HeaderOnly, DATA_ROW,
                     << TextCell(isoformat(7)), Blank, Blank,
                        NumberCell(1234550) >>) ],
      [ exists |-> TRUE,
        cells  |-> update(HeaderOnly, DATA_ROW,
                     << Blank, NumberCell(6000000), NumberCell(4500005),
                        NumberCell(1234550) >>) ],
      [ exists |-> TRUE,
        cells  |-> update(BlankGrid, DATA_ROW, RecordCells(EarlierRecord)) ] }

\* records handed to write_single_row
AdapterRecords ==
    { Generated(d, t) : d \in RunDraws \cup
                              { [ raw |-> 123456785, inv_prop |-> 59,
                                  cl_prop |-> 100 ] },
                        t \in StartTimes }

----------------------------------------------------------------------------
(* The session: one script run per tick *)

Init ==
    /\ \E st \in SessionStores : wsExists = st.exists /\ cells = st.cells
    /\ padValues \in BOOLEAN
    /\ last_generate_ts = 0
    /\ clock \in StartTimes
    /\ sessionStart = clock
    /\ pc = "idle"
    /\ clicked = FALSE
    /\ manual = FALSE
    /\ now = 0
    /\ gateDue = FALSE
    /\ rec = NoRec
    /\ latest = None
    /\ rendered = NothingShown
    /\ remaining = 0
    /\ tsBefore = 0
    /\ cellsBefore = cells
    /\ gens = << >>
    /\ firstRun = TRUE
    /\ writes = << >>
    /\ reads = << >>
    /\ draw = NoDraw

\* the gate without the button
after_gate_ignores_manual(m, d) == IF d THEN "generate" ELSE "read"

\* the gate left open
after_gate_always(m, d) == "generate"

\* line 91: if manual or due(now)
after_gate(m, d) == IF m \/ d THEN "generate" ELSE "read"

\* the exception of the write caught and dropped
after_write_swallowed(f) == "stamp"

\* lines 93-94: an exception raised by write_single_row leaves the script
after_write(f) == IF f = "none" THEN "stamp" ELSE "failed_write"

Failed == { "failed_write", "failed_read", "failed_render" }

\* lines 86-91: the button, the clock and the gate.  gateDue records
\* due(now) also when `manual` makes Python skip the call.
BeginRun ==
    /\ pc = "idle"
    /\ manual' = clicked
    /\ clicked' = FALSE
    /\ now' = clock
    /\ gateDue' = due(clock)
    /\ pc' = after_gate(clicked, due(clock))
    /\ tsBefore' = last_generate_ts
    /\ cellsBefore' = cells
    /\ writes' = << >>
    /\ rec' = NoRec
    /\ draw' = NoDraw
    /\ latest' = None
    /\ rendered' = NothingShown
    /\ reads' = << >>
    /\ UNCHANGED << wsExists, cells, padValues, last_generate_ts, clock,
                    sessionStart, remaining, gens, firstRun >>

\* line 92
Generate ==
    /\ pc = "generate"
    /\ \E d \in RunDraws :
          /\ draw' = d
          /\ rec' = Generated(d, clock)
    /\ LET g == [ now |-> now, manual |-> manual, stamped |-> FALSE ]
       IN  gens' = IF Len(gens) = 0 THEN << g >>
                   ELSE << gens[Len(gens)], g >>
    /\ pc' = "write"
    /\ UNCHANGED << wsExists, cells, padValues, last_generate_ts, clock,
                    sessionStart, clicked, manual, now, gateDue, latest,
                    rendered, remaining, tsBefore, cellsBefore, firstRun,
                    writes, reads >>

\* line 93: write_single_row(rec); the calls to the service take time
Write ==
    /\ pc = "write"
    /\ \E f \in FailPoints, d \in WriteLatency :
          LET out == write_single_row(wsExists, cells, rec, f)
          IN  /\ clock + d <= sessionStart + MaxSession
              /\ clock' = clock + d
              /\ wsExists' = out.exists
              /\ cells' = out.cells
              /\ writes' = Append(writes, f)
              /\ pc' = after_write(f)
    /\ UNCHANGED << padValues, last_generate_ts, sessionStart, clicked,
                    manual, now, gateDue, rec, latest, rendered, remaining,
                    tsBefore, cellsBefore, gens, firstRun, reads, draw >>

\* the timestamp left as it was
Stamp_keeps_old ==
    /\ pc = "stamp"
    /\ gens' = [ gens EXCEPT ![Len(gens)].stamped = TRUE ]
    /\ pc' = "read"
    /\ UNCHANGED << wsExists, cells, padValues, clock, sessionStart, clicked,
                    manual, now, gateDue, rec, latest, rendered, remaining,
                    tsBefore, cellsBefore, firstRun, writes, reads, draw,
                    last_generate_ts >>

\* line 94
Stamp ==
    /\ pc = "stamp"
    /\ last_generate_ts' = now
    /\ gens' = [ gens EXCEPT ![Len(gens)].stamped = TRUE ]
    /\ pc' = "read"
    /\ UNCHANGED << wsExists, cells, padValues, clock, sessionStart, clicked,
                    manual, now, gateDue, rec, latest, rendered, remaining,
                    tsBefore, cellsBefore, firstRun, writes, reads, draw >>

\* line 96: latest = read_latest(); an unreachable store or a frame that
\* cannot be built ends the run
Read ==
    /\ pc = "read"
    /\ \E reachable \in BOOLEAN :
          IF reachable
          THEN LET ws  == open_ws(wsExists, cells)
                   res == read_latest(ws.cells, padValues)
               IN  /\ wsExists' = ws.exists
                   /\ cells' = ws.cells
                   /\ latest' = res
                   /\ reads' = Append(reads, res)
                   /\ pc' = IF res.kind = "error" THEN "failed_read"
                            ELSE "render"
          ELSE /\ pc' = "failed_read"
               /\ UNCHANGED << wsExists, cells, latest, reads >>
    /\ UNCHANGED << padValues, last_generate_ts, clock, sessionStart, clicked,
                    manual, now, gateDue, rec, rendered, remaining, tsBefore,
                    cellsBefore, gens, firstRun, writes, draw >>

\* lines 98-117: the metrics or the placeholder, then the countdown
Render ==
    /\ pc = "render"
    /\ IF latest.kind = "frame" /\ ~Renderable(latest)
       THEN /\ pc' = "failed_render"
            /\ UNCHANGED << rendered, remaining >>
       ELSE /\ rendered' = render(latest)
            /\ remaining' = countdown(clock, last_generate_ts)
            /\ pc' = "sleep"
    /\ UNCHANGED << wsExists, cells, padValues, last_generate_ts, clock,
                    sessionStart, clicked, manual, now, gateDue, rec, latest,
                    tsBefore, cellsBefore, gens, firstRun, writes, reads,
                    draw >>

\* lines 119-120: time.sleep(1); st.rerun().  A press of the button is
\* handed to the next run.
Sleep ==
    /\ pc = "sleep"
    /\ \E d \in Elapse, press \in BOOLEAN :
          /\ clock + d <= sessionStart + MaxSession
          /\ d = 0 => press
          /\ clock' = clock + d
          /\ clicked' = press
    /\ pc' = "idle"
    /\ firstRun' = FALSE
    /\ UNCHANGED << wsExists, cells, padValues, last_generate_ts,
                    sessionStart, manual, now, gateDue, rec, latest, rendered,
                    remaining, tsBefore, cellsBefore, gens, writes, reads,
                    draw >>

\* After an exception line 120 is not reached.  The next run of the session
\* starts when the user acts: a press of the button, or a plain rerun of
\* the page.
RerunAfterFailure ==
    /\ pc \in Failed
    /\ \E d \in Elapse, press \in BOOLEAN :
          /\ clock + d <= sessionStart + MaxSession
          /\ clock' = clock + d
          /\ clicked' = press
    /\ pc' = "idle"
    /\ firstRun' = FALSE
    /\ UNCHANGED << wsExists, cells, padValues, last_generate_ts,
                    sessionStart, manual, now, gateDue, rec, latest, rendered,
                    remaining, tsBefore, cellsBefore, gens, writes, reads,
                    draw >>

Next ==
    \/ BeginRun
    \/ Generate
    \/ Write
    \/ Stamp
    \/ Read
    \/ Render
    \/ Sleep
    \/ RerunAfterFailure

Spec == Init /\ [][Next]_vars

----------------------------------------------------------------------------
(* The sampler on its own: every draw of the random source *)

sessionVars == << last_generate_ts, clock, sessionStart, clicked, manual, now,
                  gateDue, rendered, remaining, tsBefore, gens, firstRun,
                  writes >>

SessionAtRest ==
    /\ last_generate_ts = 0
    /\ clock \in StartTimes
    /\ sessionStart = clock
    /\ clicked = FALSE
    /\ manual = FALSE
    /\ now = 0
    /\ gateDue = FALSE
    /\ rendered = NothingShown
    /\ remaining = 0
    /\ tsBefore = 0
    /\ gens = << >>
    /\ firstRun = TRUE
    /\ writes = << >>

InitGen ==
    /\ SessionAtRest
    /\ wsExists = FALSE
    /\ cells = BlankGrid
    /\ cellsBefore = BlankGrid
    /\ padValues = FALSE
    /\ pc = "idle"
    /\ rec = NoRec
    /\ draw = NoDraw
    /\ latest = None
    /\ reads = << >>

\* rec = generate_plausible_values(rng)
Sample ==
    /\ \E raw \in LognormalDraws, ip \in InvPropDraws, cp \in ClPropDraws :
          /\ draw' = [ raw |-> raw, inv_prop |-> ip, cl_prop |-> cp ]
          /\ rec' = generate_plausible_values(raw, ip, cp, clock)
    /\ pc' = "sampled"
    /\ UNCHANGED << sessionVars, wsExists, cells, cellsBefore, padValues,
                    latest, reads >>

NextGen == Sample

SpecGen == InitGen /\ [][NextGen]_vars

----------------------------------------------------------------------------
(* The store adapter on its own: write_single_row and read_latest called   *)
(* in any order on any worksheet.  rec is the record of the last write     *)
(* when that write succeeded, reads the results of the reads since.        *)

InitStore ==
    /\ SessionAtRest
    /\ \E st \in AdapterStores : wsExists = st.exists /\ cells = st.cells
    /\ cellsBefore = cells
    /\ padValues \in BOOLEAN
    /\ pc = "start"
    /\ rec = NoRec
    /\ draw = NoDraw
    /\ latest = None
    /\ reads = << >>

StoreWrite ==
    /\ \E r \in AdapterRecords, f \in FailPoints :
          LET out == write_single_row(wsExists, cells, r, f)
          IN  /\ wsExists' = out.exists
              /\ cells' = out.cells
              /\ cellsBefore' = out.cells
              /\ rec' = IF f = "none" THEN r ELSE NoRec
              /\ pc' = IF f = "none" THEN "written" ELSE "write_failed"
    /\ reads' = << >>
    /\ latest' = None
    /\ UNCHANGED << sessionVars, padValues, draw >>

StoreRead ==
    /\ Len(reads) < MaxReads
    /\ LET ws  == open_ws(wsExists, cells)
           res == read_latest(ws.cells, padValues)
       IN  /\ wsExists' = ws.exists
           /\ cells' = ws.cells
           /\ latest' = res
           /\ reads' = Append(reads, res)
    /\ pc' = "read"
    /\ UNCHANGED << sessionVars, cellsBefore, padValues, rec, draw >>

NextStore == StoreWrite \/ StoreRead

SpecStore == InitStore /\ [][NextStore]_vars

----------------------------------------------------------------------------
(* Properties *)

BlankRow == [ c \in 1..WS_COLS |-> Blank ]

\* the row write_single_row leaves for a record
RowOf(record) ==
    [ c \in 1..WS_COLS |->
        IF c <= RANGE_COLS THEN RecordCells(record)[c] ELSE Blank ]

DataRecords(grid) == { r \in DATA_ROW..WS_ROWS : grid[r] # BlankRow }

Populated(grid) ==
    Cardinality({ c \in 1..RANGE_COLS : Display(grid[DATA_ROW][c]) # << >> })

\* the run generated a snapshot and its write succeeded
WroteThisRun == writes = << "none" >>

\* Python values: text read from the worksheet, numbers of a snapshot
PyStr(s) == [ type |-> "str", s |-> s ]
PyFloat(p) == [ type |-> "float", pence |-> p ]

SnapshotValues(r) ==
    << PyStr(r.timestamp_utc), PyFloat(r.current_assets),
       PyFloat(r.current_liabilities), PyFloat(r.inventory) >>

FrameValues(f) == [ c \in 1..Len(f.row) |-> PyStr(f.row[c]) ]

\* C1: the gate's value in a run is true exactly when now minus the
\* timestamp the run found is at least INTERVAL_SECONDS: true at the
\* boundary (interval 30, last 0, now 30), false before it (last 100,
\* now 120).
C1_DueIffIntervalElapsed ==
    /\ gateDue = (now - tsBefore >= INTERVAL_SECONDS)
    /\ INTERVAL_SECONDS = 30
    /\ (tsBefore = 0 /\ now = 30) => gateDue
    /\ (tsBefore = 100 /\ now = 120) => ~gateDue

C1_Witness ==
    /\ pc = "read"
    /\ tsBefore = 100
    /\ now = 120
    /\ ~gateDue

\* C2: whatever the three draws, the snapshot has current_assets within
\* 50,000..250,000, inventory above 0 and at most current_assets, and
\* current_liabilities at least 1.0.
C2_SnapshotInRange ==
    pc = "sampled" =>
        /\ CA_MIN * Pence <= rec.current_assets
        /\ rec.current_assets <= CA_MAX * Pence
        /\ 0 < rec.inventory
        /\ rec.inventory <= rec.current_assets
        /\ rec.current_liabilities >= 1 * Pence

C2_Witness ==
    /\ pc = "sampled"
    /\ draw.raw > CA_MAX * Mills
    /\ draw.inv_prop = INV_PROP_HIGH
    /\ rec.current_assets = CA_MAX * Pence

\* C3: a run whose button was pressed generates and writes a snapshot
\* whatever the gate says, and every run whose write succeeded has
\* last_generate_ts equal to its own `now` from then to its end, with the
\* snapshot in the data row.
C3_ManualForcesGeneration ==
    /\ (manual /\ pc \notin { "idle", "generate", "write" }) =>
           (rec # NoRec /\ Len(writes) = 1)
    /\ (WroteThisRun /\ pc \notin { "idle", "stamp" }) =>
           (last_generate_ts = now /\ cells[DATA_ROW] = RowOf(rec))

C3_Witness ==
    /\ pc = "sleep"
    /\ manual
    /\ ~gateDue
    /\ now - tsBefore < INTERVAL_SECONDS
    /\ WroteThisRun
    /\ last_generate_ts = now
    /\ clock > now

\* C4: the worksheet never holds more than one data record: only row 1
\* (the fixed header) and row 2, columns A-D, are ever written, and after
\* a successful write row 2 is the new snapshot and nothing else.
C4_SingleRowOverwritten ==
    /\ Cardinality(DataRecords(cells)) <= 1
    /\ \A r \in 1..WS_ROWS :
          r \notin { HEADER_ROW, DATA_ROW } => cells[r] = BlankRow
    /\ \A r \in { HEADER_ROW, DATA_ROW }, c \in 1..WS_COLS :
          c > RANGE_COLS => cells[r][c] = Blank
    /\ cells[HEADER_ROW] \in { BlankRow, HeaderOnly[HEADER_ROW] }
    /\ (WroteThisRun /\ pc # "idle") => cells[DATA_ROW] = RowOf(rec)

C4_Witness ==
    /\ pc = "sleep"
    /\ WroteThisRun
    /\ cellsBefore[DATA_ROW] # BlankRow
    /\ cellsBefore[DATA_ROW] # cells[DATA_ROW]
    /\ cells[DATA_ROW] = RowOf(rec)
    /\ tsBefore > 0

\* C5: read_latest returns None whenever row 2 has fewer than 4 populated
\* columns (a missing row included), and returns a record only when all 4
\* columns of row 2 are populated.
C5_AbsentUnlessFourPopulated ==
    pc = "read" =>
        /\ Populated(cells) < RANGE_COLS => latest = None
        /\ latest.kind = "frame" => Populated(cells) = RANGE_COLS

\* C6 as stated: after a successful write of S, read_latest returns a
\* record under the fixed header names whose four fields equal S's four
\* fields.
C6_RoundTripEqualFields ==
    (pc = "read" /\ rec # NoRec) =>
        /\ latest.kind = "frame"
        /\ latest.columns = HEADER
        /\ FrameValues(latest) = SnapshotValues(rec)

\* C6 as amended: after a successful write of S, read_latest returns a
\* record under the fixed header names, in S's column order, whose
\* timestamp text is S's and whose three monetary fields are text that
\* float() parses to S's numbers.
C6_RoundTripModuloFormatting ==
    (pc = "read" /\ rec # NoRec) =>
        /\ latest.kind = "frame"
        /\ latest.columns = HEADER
        /\ Len(latest.row) = RANGE_COLS
        /\ latest.row[1] = rec.timestamp_utc
        /\ float(latest.row[2]) = rec.current_assets
        /\ float(latest.row[3]) = rec.current_liabilities
        /\ float(latest.row[4]) = rec.inventory
        /\ Field(latest, HEADER[4]) = latest.row[4]

C6_Witness ==
    /\ pc = "read"
    /\ rec # NoRec
    /\ Len(reads) = MaxReads
    /\ latest.kind = "frame"
    /\ rec.current_assets % Pence = 0
    /\ latest.row[2] = Digits(CA_MAX)

\* C7: when write_single_row fails the run stops there: one write call,
\* last_generate_ts as the run found it, nothing read back and nothing
\* rendered.
C7_WriteFailureAbortsRun ==
    (writes # << >> /\ writes[1] # "none" /\ pc # "idle") =>
        /\ pc = "failed_write"
        /\ Len(writes) = 1
        /\ last_generate_ts = tsBefore
        /\ latest = None
        /\ reads = << >>
        /\ rendered = NothingShown

C7_Witness ==
    /\ pc = "failed_write"
    /\ writes = << "row" >>
    /\ tsBefore > 0
    /\ last_generate_ts = tsBefore
    /\ cells[DATA_ROW] # RowOf(rec)

\* C8: reads with no write between them return the same result, and leave
\* the data row as it was, whatever worksheet they start from.
C8_ReadsIdempotent ==
    /\ \A i, j \in 1..Len(reads) : reads[i] = reads[j]
    /\ Len(reads) >= 1 => cells[DATA_ROW] = cellsBefore[DATA_ROW]

C8_Witness ==
    /\ Len(reads) = 2
    /\ reads[1] = None
    /\ rec = NoRec
    /\ cells = HeaderOnly
    /\ cellsBefore = BlankGrid

\* C9: a run that reaches its end has taken the gate, then (only if due or
\* pressed) sample, write and timestamp, then one read, then the render:
\* a generating run shows its own snapshot; any other run leaves the
\* worksheet and the timestamp alone and shows the record stored before.
C9_RunOrder ==
    pc = "sleep" =>
        /\ (rec # NoRec) = (manual \/ gateDue)
        /\ reads = << latest >>
        /\ rendered = render(latest)
        /\ rec # NoRec =>
              /\ WroteThisRun
              /\ last_generate_ts = now
              /\ rendered.kind = "metrics"
              /\ rendered.m1 = FormatMetric(rec.current_assets)
              /\ rendered.m2 = FormatMetric(rec.current_liabilities)
              /\ rendered.m3 = FormatMetric(rec.inventory)
              /\ rendered.caption = rec.timestamp_utc
        /\ rec = NoRec =>
              /\ writes = << >>
              /\ cells = cellsBefore
              /\ last_generate_ts = tsBefore
              /\ rendered.kind = "metrics"
              /\ rendered = render(read_latest(cellsBefore, padValues))

C9_Witness ==
    /\ pc = "sleep"
    /\ rec = NoRec
    /\ ~manual
    /\ rendered.kind = "metrics"
    /\ remaining = 10

FirstRunGenerates ==
    (firstRun /\ pc # "idle") =>
        /\ gateDue
        /\ pc = "generate" \/ rec # NoRec

====
